---- MODULE Spec2Model ----
(***************************************************************************)
(* Model of the LabVIEW ingestion service of the Perocube data monitoring  *)
(* system (src/src/ingestion/labview_connector.py).                        *)
(*                                                                         *)
(* The service is one main thread (start -> accept loop -> stop) and one   *)
(* daemon thread per accepted client.  Every client thread runs            *)
(* _handle_client: recv, decode, _process_message, sendall(b'ACK').  All   *)
(* threads share a single psycopg2 connection, self.db_conn, and therefore *)
(* a single open transaction.                                              *)
(***************************************************************************)
EXTENDS Integers, Sequences, FiniteSets, TLC

VARIABLES
    main_pc,        \* position of the main thread (main / start / stop)
    is_running,     \* self.is_running
    server_socket,  \* self.server_socket: "none", "unbound", "listening", "closed"
    db_conn,        \* self.db_conn: "none", "open", "closed"
    txn,            \* state of the shared connection's transaction
    pending,        \* rows inserted in the open transaction, not committed
    store,          \* committed rows of the three measurement tables
    sess,           \* per client thread: position in _handle_client
    received,       \* per client: the chunks recv() returned, in order
    acks,           \* per client: the frames sendall sent, in order
    failed,         \* tags of the messages whose execute or commit raised
    start_error,    \* the exception start() ran into, and what became of it
    writes,         \* per client: outcomes of the database calls made for
                    \* the message it is working on, in order
    draining,       \* tags of the messages in the works when stop() was called
    wire,           \* bytes a client has written that recv has not returned
    sent,           \* the messages that client wrote, in order
    input,          \* a measurement handed to the conversion functions
    output          \* what each conversion path made of it

vars == <<main_pc, is_running, server_socket, db_conn, txn, pending, store,
          sess, received, acks, failed, start_error, writes, draining,
          wire, sent, input, output>>

\* The variables the service itself never touches: the byte stream of the
\* framing model and the inputs of the conversion functions checked on their
\* own.
beside == <<wire, sent, input, output>>

(***************************************************************************)
(* Bounds of the model.                                                    *)
(***************************************************************************)
MaxConns == 2
MaxMsgs == 2

Conns == 1..MaxConns

(***************************************************************************)
(* Python values.  A dict is a function on the set of its keys; None and   *)
(* the exceptions raised by a conversion are explicit values.              *)
(***************************************************************************)
None == [none |-> TRUE]
Num(n) == [num |-> n]
Raised == [ok |-> FALSE]
Value(v) == [ok |-> TRUE, val |-> v]

\* dict.get(key, default)
Get(d, k, default) == IF k \in DOMAIN d THEN d[k] ELSE default

\* Timestamp strings are abstracted by their format and the instant they
\* denote: "iso"   2023-09-20T12:00:00 (accepted by datetime.fromisoformat),
\*          "dash"  2023-09-20 12:00:00,
\*          "dmy"   20/09/2023 12:00:00 (the day cannot be a month),
\*          "mdy"   09/20/2023 12:00:00,
\*          "slash" 2023/09/20 12:00:00 (one of the validators' fallback
\*                  formats, not ISO-8601),
\*          "junk"  not a date at all.
Ts(fmt, t) == [fmt |-> fmt, t |-> t]

\* 05/09/2023 12:00:00 is a date both ways round: t is the instant it
\* denotes read day first, alt the instant read month first.
Ambiguous(t, alt) == [fmt |-> "ambiguous", t |-> t, alt |-> alt]

\* datetime.fromisoformat(x): TypeError on None, ValueError on a string that
\* is not ISO-8601.
FromIsoFormat(x) ==
    IF "fmt" \in DOMAIN x /\ x.fmt \in {"iso", "dash"} THEN Value(x.t)
    ELSE Raised

\* float(x) / int(x): numbers convert, None and other strings raise.
ToNumber(x) == IF "num" \in DOMAIN x THEN Value(x.num) ELSE Raised

(***************************************************************************)
(* What a client can send.  A chunk is what one recv(4096) returns:        *)
(* bytes that are not UTF-8, text that is not JSON, or a JSON object.      *)
(***************************************************************************)
BadText == [syntax |-> "badtext"]
BadJson == [syntax |-> "badjson"]
Json(env) == [syntax |-> "json", env |-> env]

Meta(c) == [board |-> Num(c), channel |-> Num(c + 1)]

MppOk(c) ==
    Json([type |-> "mpp",
          data |-> [timestamp |-> Ts("iso", 1), current |-> Num(5),
                    voltage |-> Num(8)],
          metadata |-> Meta(c)])
MppNoCurrent(c) ==
    Json([type |-> "mpp",
          data |-> [timestamp |-> Ts("iso", 2), voltage |-> Num(8)],
          metadata |-> Meta(c)])
MppBadTimestamp(c) ==
    Json([type |-> "mpp",
          data |-> [timestamp |-> Ts("slash", 3), current |-> Num(5),
                    voltage |-> Num(8)],
          metadata |-> Meta(c)])
NoData == Json([type |-> "mpp"])
UnknownType ==
    Json([type |-> "humidity", data |-> [timestamp |-> Ts("iso", 5)]])

\* The chunks client c may send.
Chunks(c) ==
    {BadText, BadJson, NoData, UnknownType,
     MppOk(c), MppNoCurrent(c), MppBadTimestamp(c)}

(***************************************************************************)
(* _process_message up to the INSERT: json.loads, the type/data check, the *)
(* dispatch on type and the conversions at the head of each _store_*       *)
(* method.  The result says where the thread goes next:                    *)
(*   "skip"     the message is logged and dropped, nothing touches the     *)
(*              database (invalid JSON, missing type or data, unknown      *)
(*              type);                                                     *)
(*   "raise"    a conversion raised inside _store_*'s try block, so its    *)
(*              except clause runs (rollback);                             *)
(*   "insert"   the row handed to cursor.execute.                          *)
(* src is not a column: it tags the row with the client and the index of   *)
(* the message it was built from.                                          *)
(***************************************************************************)
Skip == [kind |-> "skip"]
Raise == [kind |-> "raise"]
Insert(row) == [kind |-> "insert", row |-> row]

\* Mutant of store_mpp_measurement: board and channel change places in the
\* parameter tuple of the INSERT.
store_mpp_measurement_swapped(measurement, metadata, src) ==
    LET timestamp == FromIsoFormat(Get(measurement, "timestamp", None))
        current == ToNumber(Get(measurement, "current", Num(0)))
        voltage == ToNumber(Get(measurement, "voltage", Num(0)))
        power == IF current.ok /\ voltage.ok
                 THEN ToNumber(Get(measurement, "power",
                                   Num(current.val * voltage.val)))
                 ELSE Raised
        board == ToNumber(Get(metadata, "board", Num(0)))
        channel == ToNumber(Get(metadata, "channel", Num(0)))
    IN  IF timestamp.ok /\ current.ok /\ voltage.ok /\ power.ok
           /\ board.ok /\ channel.ok
        THEN Insert([table |-> "mpp_measurement",
                     timestamp |-> timestamp.val,
                     current |-> current.val,
                     voltage |-> voltage.val,
                     power |-> power.val,
                     board |-> channel.val,
                     channel |-> board.val,
                     src |-> src])
        ELSE Raise

\* _store_mpp_measurement up to cursor.execute.
store_mpp_measurement(measurement, metadata, src) ==
    LET timestamp == FromIsoFormat(Get(measurement, "timestamp", None))
        current == ToNumber(Get(measurement, "current", Num(0)))
        voltage == ToNumber(Get(measurement, "voltage", Num(0)))
        power == IF current.ok /\ voltage.ok
                 THEN ToNumber(Get(measurement, "power",
                                   Num(current.val * voltage.val)))
                 ELSE Raised
        board == ToNumber(Get(metadata, "board", Num(0)))
        channel == ToNumber(Get(metadata, "channel", Num(0)))
    IN  IF timestamp.ok /\ current.ok /\ voltage.ok /\ power.ok
           /\ board.ok /\ channel.ok
        THEN Insert([table |-> "mpp_measurement",
                     timestamp |-> timestamp.val,
                     current |-> current.val,
                     voltage |-> voltage.val,
                     power |-> power.val,
                     board |-> board.val,
                     channel |-> channel.val,
                     src |-> src])
        ELSE Raise

\* _store_temperature_measurement up to cursor.execute.
store_temperature_measurement(measurement, metadata, src) ==
    LET timestamp == FromIsoFormat(Get(measurement, "timestamp", None))
        temperature == ToNumber(Get(measurement, "temperature", Num(0)))
        sensor_id == Get(metadata, "sensor_id", None)
    IN  IF timestamp.ok /\ temperature.ok
        THEN Insert([table |-> "temperature_measurement",
                     timestamp |-> timestamp.val,
                     temperature |-> temperature.val,
                     sensor_id |-> sensor_id,
                     src |-> src])
        ELSE Raise

\* _store_irradiance_measurement up to cursor.execute.
store_irradiance_measurement(measurement, metadata, src) ==
    LET timestamp == FromIsoFormat(Get(measurement, "timestamp", None))
        raw_reading == ToNumber(Get(measurement, "raw_reading", Num(0)))
        irradiance == ToNumber(Get(measurement, "irradiance", Num(0)))
        sensor_id == Get(metadata, "sensor_id", None)
    IN  IF timestamp.ok /\ raw_reading.ok /\ irradiance.ok
        THEN Insert([table |-> "irradiance_measurement",
                     timestamp |-> timestamp.val,
                     raw_reading |-> raw_reading.val,
                     irradiance |-> irradiance.val,
                     sensor_id |-> sensor_id,
                     src |-> src])
        ELSE Raise

\* `not x` for the values data.get('type') and data.get('data') can take.
Falsy(x) == x = None \/ (DOMAIN x = {})

process_message(chunk, src) ==
    IF chunk.syntax # "json" THEN Skip
    ELSE LET data == chunk.env
             data_type == Get(data, "type", "")
             measurement == Get(data, "data", None)
             metadata == Get(data, "metadata", [k \in {} |-> None])
         IN  IF data_type = "" \/ Falsy(measurement) THEN Skip
             ELSE IF data_type = "mpp"
                  THEN store_mpp_measurement(measurement, metadata, src)
             ELSE IF data_type = "temperature"
                  THEN store_temperature_measurement(measurement, metadata, src)
             ELSE IF data_type = "irradiance"
                  THEN store_irradiance_measurement(measurement, metadata, src)
             ELSE Skip

(***************************************************************************)
(* State after LabVIEWConnector.__init__ and before main calls start().    *)
(***************************************************************************)
NoSession == [pc |-> "none", why |-> "none"]

\* No exception in start() so far.  stage is the call that raised, logged
\* says whether logger.error was called for it, propagated whether start()
\* raised it to its caller.
NoError == [stage |-> "none", logged |-> FALSE, propagated |-> FALSE]

Init ==
    /\ main_pc = "start"
    /\ is_running = FALSE
    /\ server_socket = "none"
    /\ db_conn = "none"
    /\ txn = "idle"
    /\ pending = {}
    /\ store = {}
    /\ sess = [c \in Conns |-> NoSession]
    /\ received = [c \in Conns |-> <<>>]
    /\ acks = [c \in Conns |-> <<>>]
    /\ failed = {}
    /\ start_error = NoError
    /\ writes = [c \in Conns |-> <<>>]
    /\ draining = {}
    /\ wire = <<>>
    /\ sent = <<>>
    /\ input = None
    /\ output = None

Goto(c, pc) == sess' = [sess EXCEPT ![c].pc = pc]
\* Leaving the while loop, by break, by the loop condition or by an
\* exception, runs the finally clause: client_socket.close().
End(c, why) == sess' = [sess EXCEPT ![c] = [pc |-> "closed", why |-> why]]

\* Client thread c has read a message and not yet sent its acknowledgment:
\* it is between recv (line 170) and the return of sendall (line 179).
InFlight(c) == sess[c].pc \in {"process", "execute", "commit", "rollback", "ack"}

\* The outcome of a call on the database connection is noted: "inserted" or
\* "committed" when it returned, "rejected" when the server refused the
\* row, "aborted" when the statement was refused because the transaction
\* had already failed, "transient" when the connection itself was unusable.
Wrote(c, outcome) == writes' = [writes EXCEPT ![c] = Append(@, outcome)]

\* The message a client thread is working on, and its tag.
Cur(c) == received[c][Len(received[c])]
Src(c) == <<c, Len(received[c])>>

(***************************************************************************)
(* Main thread: main() -> start() -> _accept_connections(), then stop().   *)
(***************************************************************************)
\* start(): socket(), bind(), listen() succeed.
Bind ==
    /\ main_pc = "start"
    /\ server_socket' = "listening"
    /\ main_pc' = "connect"
    /\ UNCHANGED <<is_running, db_conn, txn, pending, store, sess, received, acks, failed>>
    /\ UNCHANGED <<start_error, writes, draining, beside>>

\* start(): bind() raises; the socket object exists but is not bound.
BindFails ==
    /\ main_pc = "start"
    /\ server_socket' = "unbound"
    /\ start_error' = [stage |-> "bind", logged |-> FALSE, propagated |-> FALSE]
    /\ main_pc' = "start_except"
    /\ UNCHANGED <<is_running, db_conn, txn, pending, store, sess, received, acks, failed>>
    /\ UNCHANGED <<writes, draining, beside>>

\* start(): _connect_to_database() succeeds, then is_running = True.
ConnectToDatabase ==
    /\ main_pc = "connect"
    /\ db_conn' = "open"
    /\ is_running' = TRUE
    /\ main_pc' = "accept"
    /\ UNCHANGED <<server_socket, txn, pending, store, sess, received, acks, failed>>
    /\ UNCHANGED <<start_error, writes, draining, beside>>

\* Mutant of ConnectFails: the exception of _connect_to_database() is
\* dropped inside it and start() goes on to the accept loop.
ConnectFailsSwallowed ==
    /\ main_pc = "connect"
    /\ start_error' = [stage |-> "connect", logged |-> FALSE, propagated |-> FALSE]
    /\ is_running' = TRUE
    /\ main_pc' = "accept"
    /\ UNCHANGED <<server_socket, db_conn, txn, pending, store,
                   sess, received, acks, failed>>
    /\ UNCHANGED <<writes, draining, beside>>

\* start(): _connect_to_database() logs and re-raises.
ConnectFails ==
    /\ main_pc = "connect"
    /\ start_error' = [stage |-> "connect", logged |-> TRUE, propagated |-> FALSE]
    /\ main_pc' = "start_except"
    /\ UNCHANGED <<is_running, server_socket, db_conn, txn, pending, store,
                   sess, received, acks, failed>>
    /\ UNCHANGED <<writes, draining, beside>>

\* start(): except Exception: log, close the server socket, return to main,
\* whose finally clause calls stop().
StartExcept ==
    /\ main_pc = "start_except"
    /\ server_socket' = "closed"
    /\ start_error' = [start_error EXCEPT !.logged = TRUE]
    /\ main_pc' = "stop"
    /\ UNCHANGED <<is_running, db_conn, txn, pending, store, sess, received, acks, failed>>
    /\ UNCHANGED <<writes, draining, beside>>

\* Mutant of Accept: an accept() returns a client and a thread is started
\* for it wherever the main thread stands, as long as there is a socket.
AcceptUnguarded(c) ==
    /\ server_socket # "none"
    /\ sess[c].pc = "none"
    /\ \A d \in Conns : d < c => sess[d].pc # "none"
    /\ Goto(c, "loop")
    /\ UNCHANGED <<main_pc, is_running, server_socket, db_conn, txn, pending,
                   store, received, acks, failed>>
    /\ UNCHANGED <<start_error, writes, draining, beside>>

\* _accept_connections(): accept() returns a client and a daemon thread is
\* started for it.  Clients are numbered in the order they are accepted.
Accept(c) ==
    /\ main_pc = "accept"
    /\ is_running
    /\ server_socket = "listening"
    /\ sess[c].pc = "none"
    /\ \A d \in Conns : d < c => sess[d].pc # "none"
    /\ Goto(c, "loop")
    /\ UNCHANGED <<main_pc, is_running, server_socket, db_conn, txn, pending,
                   store, received, acks, failed>>
    /\ UNCHANGED <<start_error, writes, draining, beside>>

\* _accept_connections(): accept() returns a client but Thread.start()
\* raises (RuntimeError: can't start new thread).  The except clause logs
\* and sleeps, and the loop goes on; client_socket is not closed, and no
\* thread serves it.
SpawnFails(c) ==
    /\ main_pc = "accept"
    /\ is_running
    /\ server_socket = "listening"
    /\ sess[c].pc = "none"
    /\ \A d \in Conns : d < c => sess[d].pc # "none"
    /\ sess' = [sess EXCEPT ![c] = [pc |-> "unserved", why |-> "spawn_error"]]
    /\ UNCHANGED <<main_pc, is_running, server_socket, db_conn, txn, pending,
                   store, received, acks, failed>>
    /\ UNCHANGED <<start_error, writes, draining, beside>>

\* The socket object of an unserved client is reclaimed, which closes it,
\* once nothing refers to it: when the local client_socket is bound to the
\* next accepted client, or when _accept_connections is left.
ReleaseSocket(c) ==
    /\ sess[c].pc = "unserved"
    /\ \/ main_pc # "accept"
       \/ \E d \in Conns : d > c /\ sess[d].pc # "none"
    /\ Goto(c, "dropped")
    /\ UNCHANGED <<main_pc, is_running, server_socket, db_conn, txn, pending,
                   store, received, acks, failed>>
    /\ UNCHANGED <<start_error, writes, draining, beside>>

\* KeyboardInterrupt in the accept loop: it is no Exception, so it leaves
\* _accept_connections and start, and main's finally clause calls stop().
Interrupt ==
    /\ main_pc = "accept"
    /\ main_pc' = "stop"
    /\ UNCHANGED <<is_running, server_socket, db_conn, txn, pending, store,
                   sess, received, acks, failed>>
    /\ UNCHANGED <<start_error, writes, draining, beside>>

\* stop(): self.is_running = False
StopFlag ==
    /\ main_pc = "stop"
    /\ is_running' = FALSE
    /\ draining' = {Src(c) : c \in {d \in Conns : InFlight(d)}}
    /\ main_pc' = "stop_socket"
    /\ UNCHANGED <<server_socket, db_conn, txn, pending, store, sess, received, acks, failed>>
    /\ UNCHANGED <<start_error, writes, beside>>

\* stop(): if self.server_socket: self.server_socket.close()
StopSocket ==
    /\ main_pc = "stop_socket"
    /\ server_socket' = IF server_socket = "none" THEN "none" ELSE "closed"
    /\ main_pc' = "stop_db"
    /\ UNCHANGED <<is_running, db_conn, txn, pending, store, sess, received, acks, failed>>
    /\ UNCHANGED <<start_error, writes, draining, beside>>

\* stop(): if self.db_conn: self.db_conn.close().  Closing the connection
\* discards its open transaction.
StopDb ==
    /\ main_pc = "stop_db"
    /\ IF db_conn = "none"
       THEN UNCHANGED <<db_conn, txn, pending>>
       ELSE /\ db_conn' = "closed"
            /\ txn' = "idle"
            /\ pending' = {}
    /\ main_pc' = "exit"
    /\ UNCHANGED <<is_running, server_socket, store, sess, received, acks, failed>>
    /\ UNCHANGED <<start_error, writes, draining, beside>>

\* main() returns: the interpreter exits and every daemon thread still
\* running is abandoned where it stands (why records where).
Exit ==
    /\ main_pc = "exit"
    /\ main_pc' = "done"
    /\ sess' = [c \in Conns |->
                  IF sess[c].pc \in {"none", "closed", "unserved", "dropped"}
                  THEN sess[c]
                  ELSE [pc |-> "killed", why |-> sess[c].pc]]
    /\ UNCHANGED <<is_running, server_socket, db_conn, txn, pending, store,
                   received, acks, failed>>
    /\ UNCHANGED <<start_error, writes, draining, beside>>

(***************************************************************************)
(* Client thread c: _handle_client.                                        *)
(***************************************************************************)
\* while self.is_running:
Loop(c) ==
    /\ sess[c].pc = "loop"
    /\ IF is_running THEN Goto(c, "recv") ELSE End(c, "stop")
    /\ UNCHANGED <<main_pc, is_running, server_socket, db_conn, txn, pending,
                   store, received, acks, failed>>
    /\ UNCHANGED <<start_error, writes, draining, beside>>

\* The number of chunks all clients together have sent so far.
RECURSIVE SumLen(_)
SumLen(S) ==
    IF S = {} THEN 0
    ELSE LET c == CHOOSE x \in S : TRUE
         IN  Len(received[c]) + SumLen(S \ {c})
NumReceived == SumLen(Conns)

\* data = client_socket.recv(4096) returns a non-empty chunk.
Recv(c) ==
    /\ sess[c].pc = "recv"
    /\ NumReceived < MaxMsgs
    /\ \E chunk \in Chunks(c) :
          received' = [received EXCEPT ![c] = Append(@, chunk)]
    /\ writes' = [writes EXCEPT ![c] = <<>>]
    /\ Goto(c, "process")
    /\ UNCHANGED <<main_pc, is_running, server_socket, db_conn, txn, pending,
                   store, acks, failed>>
    /\ UNCHANGED <<start_error, draining, beside>>

\* recv returns b'': the peer closed; break.
RecvEof(c) ==
    /\ sess[c].pc = "recv"
    /\ End(c, "eof")
    /\ UNCHANGED <<main_pc, is_running, server_socket, db_conn, txn, pending,
                   store, received, acks, failed>>
    /\ UNCHANGED <<start_error, writes, draining, beside>>

\* recv raises (connection reset): except Exception.
RecvError(c) ==
    /\ sess[c].pc = "recv"
    /\ End(c, "recv_error")
    /\ UNCHANGED <<main_pc, is_running, server_socket, db_conn, txn, pending,
                   store, received, acks, failed>>
    /\ UNCHANGED <<start_error, writes, draining, beside>>

\* Mutant of NextPc: a dropped message goes straight back to the loop
\* condition (a `continue` in place of the `return`), without the sendall.
NextPcSkipsAck(r) ==
    CASE r.kind = "skip" -> "loop"
      [] r.kind = "raise" -> "rollback"
      [] r.kind = "insert" -> "execute"

\* Where the client thread continues after the conversions: a dropped
\* message returns from _process_message to the sendall in _handle_client,
\* a raised conversion enters the except clause of _store_*, a row goes to
\* cursor.execute.
NextPc(r) ==
    CASE r.kind = "skip" -> "ack"
      [] r.kind = "raise" -> "rollback"
      [] r.kind = "insert" -> "execute"

\* data.decode('utf-8'): UnicodeDecodeError on bytes that are not UTF-8.
Utf8Decode(chunk) == IF chunk.syntax = "badtext" THEN Raised ELSE Value(chunk)

\* message = data.decode('utf-8'); self._process_message(message), up to
\* the first call on the database connection.  The decode is inside the try
\* of _handle_client but outside _process_message, so its error ends the
\* client thread.
Process(c) ==
    /\ sess[c].pc = "process"
    /\ LET message == Utf8Decode(Cur(c))
       IN  IF ~message.ok THEN End(c, "decode_error")
           ELSE Goto(c, NextPc(process_message(message.val, Src(c))))
    /\ UNCHANGED <<main_pc, is_running, server_socket, db_conn, txn, pending,
                   store, received, acks, failed>>
    /\ UNCHANGED <<start_error, writes, draining, beside>>

\* cursor = self.db_conn.cursor(); cursor.execute(INSERT ...).  It raises on
\* a closed connection and inside a transaction that already failed; an
\* open connection may also reject the row, which fails the transaction:
\* nothing inserted in it so far can be committed any more.  Or the
\* connection to the server is lost during the call: psycopg2 raises and
\* marks the connection closed, and the server drops the transaction.
Execute(c) ==
    /\ sess[c].pc = "execute"
    /\ IF db_conn # "open" \/ txn = "aborted"
       THEN /\ Goto(c, "rollback")
            /\ failed' = failed \cup {Src(c)}
            /\ Wrote(c, IF db_conn # "open" THEN "transient" ELSE "aborted")
            /\ UNCHANGED <<db_conn, txn, pending>>
       ELSE \/ /\ pending' = pending \cup {process_message(Cur(c), Src(c)).row}
               /\ txn' = "active"
               /\ Goto(c, "commit")
               /\ Wrote(c, "inserted")
               /\ UNCHANGED <<db_conn, failed>>
            \/ /\ txn' = "aborted"
               /\ pending' = {}
               /\ Goto(c, "rollback")
               /\ Wrote(c, "rejected")
               /\ failed' = failed \cup {Src(c)}
               /\ UNCHANGED db_conn
            \/ /\ db_conn' = "closed"
               /\ txn' = "idle"
               /\ pending' = {}
               /\ Goto(c, "rollback")
               /\ Wrote(c, "transient")
               /\ failed' = failed \cup {Src(c)}
    /\ UNCHANGED <<main_pc, is_running, server_socket, store, received, acks>>
    /\ UNCHANGED <<start_error, draining, beside>>

\* Mutant of Commit: the call returns at once and the transaction is left
\* open, to be committed some time later.
CommitDeferred(c) ==
    /\ sess[c].pc = "commit"
    /\ Goto(c, "ack")
    /\ Wrote(c, "committed")
    /\ UNCHANGED <<main_pc, is_running, server_socket, db_conn, txn, pending,
                   store, received, acks, failed>>
    /\ UNCHANGED <<start_error, draining, beside>>

\* self.db_conn.commit(): commits whatever the shared transaction holds.  A
\* failed transaction is ended by the server without an error; a closed
\* connection raises.
Commit(c) ==
    /\ sess[c].pc = "commit"
    /\ IF db_conn # "open"
       THEN /\ Goto(c, "rollback")
            /\ failed' = failed \cup {Src(c)}
            /\ Wrote(c, "transient")
            /\ UNCHANGED <<txn, pending, store>>
       ELSE /\ store' = IF txn = "aborted" THEN store ELSE store \cup pending
            /\ pending' = {}
            /\ txn' = "idle"
            /\ Goto(c, "ack")
            /\ Wrote(c, "committed")
            /\ UNCHANGED failed
    /\ UNCHANGED <<main_pc, is_running, server_socket, db_conn, received, acks>>
    /\ UNCHANGED <<start_error, draining, beside>>

\* except Exception: self.db_conn.rollback() ends the shared transaction.
\* On a closed connection the rollback itself raises and is caught by
\* _process_message.
Rollback(c) ==
    /\ sess[c].pc = "rollback"
    /\ IF db_conn # "open"
       THEN UNCHANGED <<txn, pending>>
       ELSE /\ pending' = {}
            /\ txn' = "idle"
    /\ Goto(c, "ack")
    /\ UNCHANGED <<main_pc, is_running, server_socket, db_conn, store,
                   received, acks, failed>>
    /\ UNCHANGED <<start_error, writes, draining, beside>>

\* The frame sent after _process_message returned, whatever it did.
AckFrame == "ACK"

\* Mutant of SendAck: the frame is left unsent when the thread goes back to
\* the loop condition.
SendAckDeferred(c) ==
    /\ sess[c].pc = "ack"
    /\ Goto(c, "loop")
    /\ UNCHANGED <<main_pc, is_running, server_socket, db_conn, txn, pending,
                   store, received, acks, failed>>
    /\ UNCHANGED <<start_error, writes, draining, beside>>

\* client_socket.sendall(b'ACK')
SendAck(c) ==
    /\ sess[c].pc = "ack"
    /\ acks' = [acks EXCEPT ![c] =
                  Append(@, [idx |-> Len(received[c]), frame |-> AckFrame])]
    /\ Goto(c, "loop")
    /\ UNCHANGED <<main_pc, is_running, server_socket, db_conn, txn, pending,
                   store, received, failed>>
    /\ UNCHANGED <<start_error, writes, draining, beside>>

\* sendall raises (the peer is gone): except Exception.
SendAckError(c) ==
    /\ sess[c].pc = "ack"
    /\ End(c, "send_error")
    /\ UNCHANGED <<main_pc, is_running, server_socket, db_conn, txn, pending,
                   store, received, acks, failed>>
    /\ UNCHANGED <<start_error, writes, draining, beside>>

Session(c) ==
    \/ Loop(c) \/ Recv(c) \/ RecvEof(c) \/ RecvError(c)
    \/ Process(c) \/ Execute(c) \/ Commit(c) \/ Rollback(c)
    \/ SendAck(c) \/ SendAckError(c)

Next ==
    \/ Bind \/ BindFails \/ ConnectToDatabase \/ ConnectFails \/ StartExcept
    \/ Interrupt \/ StopFlag \/ StopSocket \/ StopDb \/ Exit
    \/ \E c \in Conns : Accept(c)
    \/ \E c \in Conns : SpawnFails(c)
    \/ \E c \in Conns : ReleaseSocket(c)
    \/ \E c \in Conns : Session(c)

Spec == Init /\ [][Next]_vars

(***************************************************************************)
(* data_processing/validators.py.  A DataFrame is modelled by one of its    *)
(* rows: a function from the column names to the values of that row.       *)
(***************************************************************************)
\* str.lower() on the column names that are not lower case already.
LowerCase ==
    [Timestamp |-> "timestamp", Time |-> "time", DateTime |-> "datetime",
     Current |-> "current", I |-> "i", Voltage |-> "voltage", V |-> "v",
     Power |-> "power", P |-> "p",
     Temperature |-> "temperature", Temp |-> "temp", T |-> "t",
     RawReading |-> "rawreading", Raw |-> "raw", Reading |-> "reading",
     Irradiance |-> "irradiance", Irr |-> "irr"]
Lower(col) == IF col \in DOMAIN LowerCase THEN LowerCase[col] ELSE col

\* The aliases the validators and the transformers look for.
TimestampNames == {"timestamp", "time", "datetime"}
CurrentNames == {"current", "i"}
VoltageNames == {"voltage", "v"}
PowerNames == {"power", "p"}
TemperatureNames == {"temperature", "temp", "t"}
RawNames == {"rawreading", "raw", "reading"}
IrradianceNames == {"irradiance", "irr"}

\* df.columns is ordered; the columns of a frame stand in the order of this
\* list.
HeaderOrder ==
    <<"timestamp", "Timestamp", "time", "Time", "datetime", "DateTime",
      "current", "Current", "i", "I", "voltage", "Voltage", "v", "V",
      "power", "Power", "p", "P",
      "temperature", "Temperature", "temp", "Temp", "t", "T",
      "raw_reading", "rawreading", "RawReading", "raw", "Raw", "reading",
      "Reading", "irradiance", "Irradiance", "irr", "Irr",
      "board", "channel", "sensor_id", "comment">>
Position(col) == CHOOSE k \in 1..Len(HeaderOrder) : HeaderOrder[k] = col

\* Mutant of HasColumn: the column names are compared as they are written.
HasColumnExact(df, names) == \E col \in DOMAIN df : col \in names

\* any(col.lower() in names for col in df.columns)
HasColumn(df, names) == \E col \in DOMAIN df : Lower(col) \in names

\* next(col for col in df.columns if col.lower() in names)
FirstColumn(df, names) ==
    CHOOSE col \in DOMAIN df :
        /\ Lower(col) \in names
        /\ \A other \in DOMAIN df :
              Lower(other) \in names => Position(col) <= Position(other)

\* A parsed timestamp (datetime64) and pandas' missing timestamp.
Datetime(t) == [dt |-> t]
NaT == [nat |-> TRUE]

\* pd.to_datetime(column) without a format: the general parser reads
\* ISO-8601, year-month-day with dashes or slashes and day/month/year
\* alike; a date that can be read both ways round is read month first
\* (dayfirst=False).  It takes a number as an offset from the epoch and a
\* missing value as NaT, leaves a datetime as it is, and raises on text
\* that is no date.
PdToDatetime(x) ==
    IF "fmt" \in DOMAIN x
    THEN IF x.fmt \in {"iso", "dash", "slash", "dmy", "mdy"}
         THEN Value(Datetime(x.t))
         ELSE IF x.fmt = "ambiguous" THEN Value(Datetime(x.alt))
         ELSE Raised
    ELSE IF "num" \in DOMAIN x THEN Value(Datetime(x.num))
    ELSE IF "dt" \in DOMAIN x THEN Value(x)
    ELSE Value(NaT)

\* pd.to_datetime(column, format=fmt): text in exactly that format.
PdToDatetimeFormat(x, fmt) ==
    IF "fmt" \in DOMAIN x
    THEN IF x.fmt = fmt THEN Value(Datetime(x.t))
         ELSE IF x.fmt = "ambiguous" /\ fmt = "dmy" THEN Value(Datetime(x.t))
         ELSE IF x.fmt = "ambiguous" /\ fmt = "mdy" THEN Value(Datetime(x.alt))
         ELSE Raised
    ELSE Raised

\* '%Y-%m-%d %H:%M:%S', '%d/%m/%Y %H:%M:%S', '%m/%d/%Y %H:%M:%S',
\* '%Y/%m/%d %H:%M:%S'
FallbackFormats == <<"dash", "dmy", "mdy", "slash">>

\* The tail shared by the three validators: the first timestamp column
\* converts, without a format or with one of the fallback formats.
TimestampConverts(df) ==
    LET x == df[FirstColumn(df, TimestampNames)]
    IN  \/ PdToDatetime(x).ok
        \/ \E k \in 1..Len(FallbackFormats) :
              PdToDatetimeFormat(x, FallbackFormats[k]).ok

validate_mpp_data_format(df) ==
    IF ~(/\ HasColumn(df, TimestampNames)
         /\ HasColumn(df, CurrentNames)
         /\ HasColumn(df, VoltageNames))
    THEN FALSE
    ELSE TimestampConverts(df)

validate_temperature_data_format(df) ==
    IF ~(/\ HasColumn(df, TimestampNames)
         /\ HasColumn(df, TemperatureNames))
    THEN FALSE
    ELSE TimestampConverts(df)

validate_irradiance_data_format(df) ==
    IF ~(/\ HasColumn(df, TimestampNames)
         /\ (HasColumn(df, RawNames) \/ HasColumn(df, IrradianceNames)))
    THEN FALSE
    ELSE TimestampConverts(df)

\* validate_data_format(df, data_type): True or False, or ValueError for a
\* type it does not know.
validate_data_format(df, data_type) ==
    IF data_type = "mpp" THEN Value(validate_mpp_data_format(df))
    ELSE IF data_type = "temperature"
         THEN Value(validate_temperature_data_format(df))
    ELSE IF data_type = "irradiance"
         THEN Value(validate_irradiance_data_format(df))
    ELSE Raised

(***************************************************************************)
(* data_processing/transformers.py, on one-row frames as above.            *)
(***************************************************************************)
\* The elif chains that build col_mapping: the aliases and the standard
\* name they are renamed to.
MppColumns ==
    <<[names |-> TimestampNames, to |-> "timestamp"],
      [names |-> CurrentNames, to |-> "current"],
      [names |-> VoltageNames, to |-> "voltage"],
      [names |-> PowerNames, to |-> "power"]>>
TemperatureColumns ==
    <<[names |-> TimestampNames, to |-> "timestamp"],
      [names |-> TemperatureNames, to |-> "temperature"]>>
IrradianceColumns ==
    <<[names |-> TimestampNames, to |-> "timestamp"],
      [names |-> RawNames, to |-> "raw_reading"],
      [names |-> IrradianceNames, to |-> "irradiance"]>>

\* col_mapping[col], or col itself when no branch of the chain matches.
Standard(col, columns) ==
    IF \E k \in 1..Len(columns) : Lower(col) \in columns[k].names
    THEN columns[CHOOSE k \in 1..Len(columns) :
                    Lower(col) \in columns[k].names].to
    ELSE col

\* Two columns of the frame end up under one name.  Such a frame does not
\* get through: result['timestamp'] is then a frame without .dtype, and a
\* doubled measurement column cannot be bound as a parameter of the INSERT.
Collides(df, columns) ==
    \E a \in DOMAIN df : \E b \in DOMAIN df :
        a # b /\ Standard(a, columns) = Standard(b, columns)

\* result.rename(columns=col_mapping)
Rename(df, columns) ==
    [name \in {Standard(col, columns) : col \in DOMAIN df} |->
        df[CHOOSE col \in DOMAIN df : Standard(col, columns) = name]]

\* Mutant of ParseTimestamp: a column that holds datetimes already is put
\* through the text formats again and comes out missing.
ParseTimestampReparses(x) ==
    IF "dt" \in DOMAIN x THEN NaT
    ELSE IF PdToDatetime(x).ok THEN PdToDatetime(x).val
    ELSE x

\* "Parse timestamp if it's a string": to_datetime without a format, then
\* the fallback formats; when nothing parses the column is left as it was.
\* A column of numbers is not of dtype object and is left alone.
ParseTimestamp(x) ==
    IF "fmt" \in DOMAIN x
    THEN IF PdToDatetime(x).ok THEN PdToDatetime(x).val
         ELSE LET parses == {k \in 1..Len(FallbackFormats) :
                               PdToDatetimeFormat(x, FallbackFormats[k]).ok}
              IN  IF parses # {}
                  THEN LET first == CHOOSE k \in parses :
                                        \A other \in parses : k <= other
                       IN  PdToDatetimeFormat(x, FallbackFormats[first]).val
                  ELSE x
    ELSE IF x = None THEN NaT
    ELSE x

\* column * column, and column * 0.1: numbers multiply, a missing value
\* gives a missing value, text raises.
Times(x, y) ==
    IF "num" \in DOMAIN x /\ "num" \in DOMAIN y THEN Value(Num(x.num * y.num))
    ELSE IF (x = None \/ "num" \in DOMAIN x) /\ (y = None \/ "num" \in DOMAIN y)
         THEN Value(None)
    ELSE Raised

\* The conversion factor 0.1 of _transform_irradiance_data, as a fraction.
FactorNumerator == 1
FactorDenominator == 10
TimesFactor(x) ==
    IF "num" \in DOMAIN x
    THEN Value(Num((x.num * FactorNumerator) \div FactorDenominator))
    ELSE IF x = None THEN Value(None)
    ELSE Raised

\* result[[...]]: KeyError unless every standard column is there.
Select(result, names) ==
    IF names \subseteq DOMAIN result
    THEN Value([name \in names |-> result[name]])
    ELSE Raised

\* _transform_mpp_data(df): the standardized row, or an exception.
transform_mpp_data(df) ==
    IF Collides(df, MppColumns) THEN Raised
    ELSE LET renamed == Rename(df, MppColumns)
         IN  IF "timestamp" \notin DOMAIN renamed THEN Raised
             ELSE LET parsed == [renamed EXCEPT
                                   !["timestamp"] = ParseTimestamp(@)]
                  IN  IF "power" \notin DOMAIN parsed
                      THEN IF {"current", "voltage"} \subseteq DOMAIN parsed
                           THEN LET power == Times(parsed["current"],
                                                   parsed["voltage"])
                                IN  IF power.ok
                                    THEN Select(parsed @@ ("power" :> power.val),
                                                {"timestamp", "current",
                                                 "voltage", "power"})
                                    ELSE Raised
                           ELSE Raised
                      ELSE Select(parsed, {"timestamp", "current", "voltage",
                                           "power"})

\* _transform_temperature_data(df)
transform_temperature_data(df) ==
    IF Collides(df, TemperatureColumns) THEN Raised
    ELSE LET renamed == Rename(df, TemperatureColumns)
         IN  IF "timestamp" \notin DOMAIN renamed THEN Raised
             ELSE Select([renamed EXCEPT !["timestamp"] = ParseTimestamp(@)],
                         {"timestamp", "temperature"})

\* _transform_irradiance_data(df)
transform_irradiance_data(df) ==
    IF Collides(df, IrradianceColumns) THEN Raised
    ELSE LET renamed == Rename(df, IrradianceColumns)
         IN  IF "timestamp" \notin DOMAIN renamed THEN Raised
             ELSE LET parsed == [renamed EXCEPT
                                   !["timestamp"] = ParseTimestamp(@)]
                  IN  IF /\ "irradiance" \notin DOMAIN parsed
                         /\ "raw_reading" \in DOMAIN parsed
                      THEN LET irradiance == TimesFactor(parsed["raw_reading"])
                           IN  IF irradiance.ok
                               THEN Select(parsed @@
                                             ("irradiance" :> irradiance.val),
                                           {"timestamp", "raw_reading",
                                            "irradiance"})
                               ELSE Raised
                      ELSE Select(parsed, {"timestamp", "raw_reading",
                                           "irradiance"})

\* transform_measurement_data(df, data_type)
transform_measurement_data(df, data_type) ==
    IF data_type = "mpp" THEN transform_mpp_data(df)
    ELSE IF data_type = "temperature" THEN transform_temperature_data(df)
    ELSE IF data_type = "irradiance" THEN transform_irradiance_data(df)
    ELSE Raised

(***************************************************************************)
(* ingestion/upload_historical_data.py, for a file of one data row.         *)
(***************************************************************************)
\* parse_mpp_data_file from the frame it has read on: the validated and
\* transformed frame, or None when the validation fails or anything raises.
parse_mpp_data_file(df) ==
    LET valid == validate_data_format(df, "mpp")
    IN  IF valid.ok /\ valid.val
        THEN LET data == transform_measurement_data(df, "mpp")
             IN  IF data.ok THEN data.val ELSE None
        ELSE None

\* insert_mpp_data up to cursor.execute: the row of the INSERT.
insert_mpp_data(data, board, channel) ==
    [table |-> "mpp_measurement",
     timestamp |-> data["timestamp"],
     current |-> data["current"],
     voltage |-> data["voltage"],
     power |-> data["power"],
     board |-> board,
     channel |-> channel]

(***************************************************************************)
(* The byte stream under recv.  TCP delivers the bytes a client wrote in    *)
(* order but cuts them where it likes: one recv(4096) returns any non-empty *)
(* prefix of what has arrived.  A serialised message is two pieces, cut at  *)
(* some byte inside the JSON text; the service is the one of Spec with a    *)
(* client connected, and its recv now takes its chunk from the stream.      *)
(***************************************************************************)
MaxSent == 2

\* The one client of this model, and what it sends.
Peer == 1
PeerMessages == {MppOk(Peer), UnknownType}

\* json.dumps(message).encode(): the bytes of a message, in two pieces.
Encode(m) == <<[of |-> m, piece |-> "head"], [of |-> m, piece |-> "tail"]>>

\* data.decode('utf-8') followed by json.loads: the text parses when it is
\* exactly one JSON object.  Part of an object is rejected (unterminated),
\* and so is an object followed by anything more ("Extra data").
ChunkOf(bytes) ==
    IF /\ Len(bytes) = 2
       /\ bytes[1].piece = "head" /\ bytes[2].piece = "tail"
       /\ bytes[1].of = bytes[2].of
    THEN bytes[1].of
    ELSE BadJson

\* The service is up and the client is connected (the state of Spec after
\* Bind, ConnectToDatabase, Accept(Peer)); nothing has been written yet.
FramingInit ==
    /\ main_pc = "accept"
    /\ is_running = TRUE
    /\ server_socket = "listening"
    /\ db_conn = "open"
    /\ txn = "idle"
    /\ pending = {}
    /\ store = {}
    /\ sess = [c \in Conns |-> IF c = Peer THEN [pc |-> "loop", why |-> "none"]
                                ELSE NoSession]
    /\ received = [c \in Conns |-> <<>>]
    /\ acks = [c \in Conns |-> <<>>]
    /\ failed = {}
    /\ start_error = NoError
    /\ writes = [c \in Conns |-> <<>>]
    /\ draining = {}
    /\ wire = <<>>
    /\ sent = <<>>
    /\ input = None
    /\ output = None

\* The client writes one more message to its socket.
PeerSends ==
    /\ Len(sent) < MaxSent
    /\ \E m \in PeerMessages :
          /\ sent' = Append(sent, m)
          /\ wire' = wire \o Encode(m)
    /\ UNCHANGED <<main_pc, is_running, server_socket, db_conn, txn, pending,
                   store, sess, received, acks, failed, start_error, writes,
                   draining, input, output>>

\* data = client_socket.recv(4096): some non-empty prefix of the bytes that
\* have arrived.
RecvBytes(c) ==
    /\ sess[c].pc = "recv"
    /\ \E n \in 1..Len(wire) :
          /\ received' = [received EXCEPT
                             ![c] = Append(@, ChunkOf(SubSeq(wire, 1, n)))]
          /\ wire' = SubSeq(wire, n + 1, Len(wire))
    /\ writes' = [writes EXCEPT ![c] = <<>>]
    /\ Goto(c, "process")
    /\ UNCHANGED <<main_pc, is_running, server_socket, db_conn, txn, pending,
                   store, acks, failed, start_error, draining, sent, input,
                   output>>

\* recv returns b'' once the client has closed and every byte was read.
RecvBytesEof(c) ==
    /\ wire = <<>>
    /\ RecvEof(c)

FramingNext ==
    \/ PeerSends
    \/ RecvBytes(Peer) \/ RecvBytesEof(Peer)
    \/ Loop(Peer) \/ Process(Peer) \/ Execute(Peer) \/ Commit(Peer)
    \/ Rollback(Peer) \/ SendAck(Peer) \/ SendAckError(Peer)

FramingSpec == FramingInit /\ [][FramingNext]_vars

(***************************************************************************)
(* The conversions on their own: one measurement is taken through the      *)
(* live path (_process_message up to the INSERT), through the validator    *)
(* and the transformer, and through the historical importer.               *)
(***************************************************************************)
NoColumns == [name \in {} |-> None]

\* The timestamps a measurement may carry: text in each of the formats,
\* text that is a date both ways round, text that is no date, a value
\* that is a datetime already, and a plain number (seconds of a run).
TimestampValues ==
    {Ts(fmt, 1) : fmt \in {"iso", "dash", "dmy", "mdy", "slash", "junk"}}
    \cup {Ambiguous(2, 3), Datetime(1), Num(7)}

\* The timestamp column, under either name, or none.
TimestampColumns ==
    {NoColumns}
    \cup {name :> x : name \in {"timestamp", "Time"}, x \in TimestampValues}

MppRows ==
    {ts @@ current @@ voltage @@ power :
        ts \in TimestampColumns,
        current \in {NoColumns, "current" :> Num(5), "I" :> Num(5)},
        voltage \in {NoColumns, "voltage" :> Num(8), "V" :> Num(8)},
        power \in {NoColumns, "power" :> Num(7), "P" :> Num(7)}}

TemperatureRows ==
    {ts @@ temperature :
        ts \in TimestampColumns,
        temperature \in {NoColumns, "temperature" :> Num(25), "T" :> Num(25)}}

IrradianceRows ==
    {ts @@ raw @@ irradiance :
        ts \in TimestampColumns,
        raw \in {NoColumns, "raw_reading" :> Num(900), "raw" :> Num(900),
                 "RawReading" :> Num(900)},
        irradiance \in {NoColumns, "irradiance" :> Num(33), "Irr" :> Num(33)}}

\* A measurement with the type and the metadata it comes with: the type,
\* data and metadata of a message, or a file of the given kind imported
\* for a board and a channel.
Inputs ==
    {[type |-> "mpp", data |-> row, metadata |-> Meta(Peer)] :
        row \in MppRows}
    \cup {[type |-> "temperature", data |-> row,
           metadata |-> [sensor_id |-> Num(3)]] : row \in TemperatureRows}
    \cup {[type |-> "irradiance", data |-> row,
           metadata |-> [sensor_id |-> Num(4)]] : row \in IrradianceRows}
    \cup {[type |-> "mpp",
           data |-> ("Timestamp" :> Ts("iso", 1)) @@ ("Time" :> Ts("iso", 1))
                    @@ ("I" :> Num(5)) @@ ("V" :> Num(8)),
           metadata |-> Meta(Peer)],
          [type |-> "temperature",
           data |-> ("Timestamp" :> Ts("iso", 1)) @@ ("Time" :> Ts("iso", 1))
                    @@ ("temperature" :> Num(25)),
           metadata |-> [sensor_id |-> Num(3)]]}
    \cup {[type |-> "humidity", data |-> ts @@ ("humidity" :> Num(60)),
           metadata |-> [sensor_id |-> Num(6)]] :
             ts \in {NoColumns, "timestamp" :> Ts("iso", 1),
                     "Time" :> Ts("junk", 1)}}

\* What a path has not been run on yet.
NotRun == [run |-> FALSE]
Ran(result) == [run |-> TRUE, result |-> result]

ConvertInit ==
    /\ main_pc = "start"
    /\ is_running = FALSE
    /\ server_socket = "none"
    /\ db_conn = "none"
    /\ txn = "idle"
    /\ pending = {}
    /\ store = {}
    /\ sess = [c \in Conns |-> NoSession]
    /\ received = [c \in Conns |-> <<>>]
    /\ acks = [c \in Conns |-> <<>>]
    /\ failed = {}
    /\ start_error = NoError
    /\ writes = [c \in Conns |-> <<>>]
    /\ draining = {}
    /\ wire = <<>>
    /\ sent = <<>>
    /\ input \in Inputs
    /\ output = [live |-> NotRun, valid |-> NotRun, transformed |-> NotRun,
                 normalized |-> NotRun, again |-> NotRun,
                 imported |-> NotRun]

service == <<main_pc, is_running, server_socket, db_conn, txn, pending, store,
             sess, received, acks, failed, start_error, writes, draining,
             wire, sent>>

\* The measurement arrives as a message: _process_message up to the
\* INSERT (skip, raise, or the row).
LivePath ==
    /\ ~output.live.run
    /\ output' = [output EXCEPT
                     !.live = Ran(process_message(Json(input), <<Peer, 1>>))]
    /\ UNCHANGED <<service, input>>

\* validate_data_format(df, data_type) on the measurement.
Validate ==
    /\ ~output.valid.run
    /\ output' = [output EXCEPT
                     !.valid = Ran(validate_data_format(input.data, input.type))]
    /\ UNCHANGED <<service, input>>

\* The frame the caller holds after transform_measurement_data(df, ...):
\* every _transform_* works on result = df.copy(), so df is as it was.
AfterTransform(df, data_type) == df

\* transform_measurement_data(df, data_type) on the measurement, whatever
\* the validator thinks of it.
Transform ==
    /\ ~output.transformed.run
    /\ output' = [output EXCEPT
                     !.transformed =
                         Ran(transform_measurement_data(input.data, input.type))]
    /\ input' = [input EXCEPT !.data = AfterTransform(@, input.type)]
    /\ UNCHANGED service

\* validate_data_format, then transform_measurement_data when it said True.
NormalizerPath ==
    /\ ~output.normalized.run
    /\ LET valid == validate_data_format(input.data, input.type)
       IN  output' = [output EXCEPT
                        !.normalized =
                            Ran(IF valid.ok /\ valid.val
                                THEN transform_measurement_data(input.data,
                                                                input.type)
                                ELSE Raised)]
    /\ UNCHANGED <<service, input>>

\* transform_measurement_data applied to the row it returned before.
TransformAgain ==
    /\ output.normalized.run
    /\ output.normalized.result.ok
    /\ ~output.again.run
    /\ output' = [output EXCEPT
                     !.again =
                         Ran(transform_measurement_data(
                                 output.normalized.result.val, input.type))]
    /\ UNCHANGED <<service, input>>

\* The measurement is the one row of an MPP file: parse_mpp_data_file,
\* called with the name of the file as text, then insert_mpp_data.
ImportPath ==
    /\ ~output.imported.run
    /\ input.type = "mpp"
    /\ LET data == parse_mpp_data_file(input.data)
       IN  output' = [output EXCEPT
                        !.imported =
                            Ran(IF data = None THEN Skip
                                ELSE Insert(insert_mpp_data(
                                         data, input.metadata.board.num,
                                         input.metadata.channel.num)))]
    /\ UNCHANGED <<service, input>>

ConvertNext ==
    \/ LivePath
    \/ Validate
    \/ Transform
    \/ NormalizerPath
    \/ TransformAgain
    \/ ImportPath

ConvertSpec == ConvertInit /\ [][ConvertNext]_vars

(***************************************************************************)
(* The historical importer as a process.  An invocation is either main()   *)
(* over a directory of files, or a call of insert_mpp_data with a frame of *)
(* rows on an open connection.  Here main_pc is the importer's position,   *)
(* input the invocation, output its progress, pending the rows of the open *)
(* transaction and store the committed rows.                               *)
(***************************************************************************)
MaxFiles == 2
MaxRows == 3

\* The files of a directory: their one data row, by what is in it.
GoodMppFile ==
    [frame |-> ("Time" :> Ts("dash", 1)) @@ ("I" :> Num(5)) @@ ("V" :> Num(8))]
BadMppFile ==
    [frame |-> ("Time" :> Ts("dash", 1)) @@ ("V" :> Num(8))]
GoodTemperatureFile ==
    [frame |-> ("Time" :> Ts("dash", 1)) @@ ("T" :> Num(25))]
BadTemperatureFile ==
    [frame |-> ("Time" :> Ts("dash", 1)) @@ ("humidity" :> Num(60))]
Files == {GoodMppFile, BadMppFile, GoodTemperatureFile, BadTemperatureFile}

\* data_dir.glob('*.txt') + data_dir.glob('*.csv'): pathlib.Path objects.
PathOf(k) == [path |-> k, suffix |-> ".csv"]

\* file_path.endswith(suffix): a method of str; a Path has no such
\* attribute and the call raises AttributeError.
EndsWith(file_path, suffix) ==
    IF "str" \in DOMAIN file_path THEN Value(file_path.suffix = suffix)
    ELSE Raised

\* parse_mpp_data_file(file_path) as main calls it: the rows to insert, or
\* None.  Everything is inside try ... except Exception: return None.
parse_file(file_path, file) ==
    LET txt == EndsWith(file_path, ".txt")
        csv == EndsWith(file_path, ".csv")
    IN  IF ~txt.ok THEN None
        ELSE IF ~txt.val /\ ~csv.ok THEN None
        ELSE IF ~txt.val /\ ~csv.val THEN None
        ELSE IF parse_mpp_data_file(file.frame) = None THEN None
        ELSE <<parse_mpp_data_file(file.frame)>>

\* A transformed frame of n rows.
Frame(n) ==
    [r \in 1..n |->
        ("timestamp" :> Datetime(r)) @@ ("current" :> Num(5))
        @@ ("voltage" :> Num(8)) @@ ("power" :> Num(40))]

Directories == UNION {[1..n -> Files] : n \in 0..MaxFiles}

Invocations ==
    {[entry |-> "main", data_type |-> data_type, board |-> board,
      channel |-> Num(2), exists |-> exists, files |-> files] :
        data_type \in {"mpp", "temperature", "irradiance"},
        board \in {None, Num(1)},
        exists \in BOOLEAN,
        files \in Directories}
    \cup {[entry |-> "insert_mpp_data", data_type |-> "mpp",
           board |-> Num(1), channel |-> Num(2), exists |-> TRUE,
           files |-> <<>>, data |-> Frame(n)] : n \in 1..MaxRows}

ImportInit ==
    /\ main_pc = "imp_start"
    /\ is_running = FALSE
    /\ server_socket = "none"
    /\ db_conn = "none"
    /\ txn = "idle"
    /\ pending = {}
    /\ store = {}
    /\ sess = [c \in Conns |-> NoSession]
    /\ received = [c \in Conns |-> <<>>]
    /\ acks = [c \in Conns |-> <<>>]
    /\ failed = {}
    /\ start_error = NoError
    /\ writes = [c \in Conns |-> <<>>]
    /\ draining = {}
    /\ wire = <<>>
    /\ sent = <<>>
    /\ input \in Invocations
    /\ output = [file |-> 0, row |-> 0, data |-> None, seen |-> {},
                 executed |-> {}, errors |-> {}]

aside == <<is_running, server_socket, sess, received, acks, failed,
           start_error, writes, draining, wire, sent, input>>

\* conn = connect_to_database()
ImpConnect ==
    /\ main_pc = "imp_start"
    /\ input.entry = "main"
    /\ db_conn' = "open"
    /\ main_pc' = "imp_args"
    /\ UNCHANGED <<txn, pending, store, output, aside>>

\* connect_to_database fails: logger.error and sys.exit(1).
ImpConnectFails ==
    /\ main_pc = "imp_start"
    /\ input.entry = "main"
    /\ main_pc' = "imp_exit"
    /\ UNCHANGED <<db_conn, txn, pending, store, output, aside>>

\* if args.data_type == 'mpp' is false: nothing is done with the directory.
ImpOtherKind ==
    /\ main_pc = "imp_args"
    /\ input.data_type # "mpp"
    /\ main_pc' = "imp_close"
    /\ UNCHANGED <<db_conn, txn, pending, store, output, aside>>

\* The three sys.exit(1) of the MPP branch: board or channel not given, no
\* such directory, no *.txt or *.csv in it.
ImpBadArguments ==
    /\ main_pc = "imp_args"
    /\ input.data_type = "mpp"
    /\ \/ input.board = None
       \/ input.channel = None
       \/ ~input.exists
       \/ input.files = <<>>
    /\ main_pc' = "imp_exit"
    /\ UNCHANGED <<db_conn, txn, pending, store, output, aside>>

\* for file_path in data_files: the loop is entered.
ImpFiles ==
    /\ main_pc = "imp_args"
    /\ input.data_type = "mpp"
    /\ input.board # None
    /\ input.channel # None
    /\ input.exists
    /\ input.files # <<>>
    /\ main_pc' = "imp_file"
    /\ output' = [output EXCEPT !.file = 1]
    /\ UNCHANGED <<db_conn, txn, pending, store, aside>>

\* data = parse_mpp_data_file(file_path); if data is not None: insert.
ImpParse ==
    /\ main_pc = "imp_file"
    /\ output.file <= Len(input.files)
    /\ LET data == parse_file(PathOf(output.file), input.files[output.file])
       IN  IF data = None
           THEN /\ main_pc' = "imp_file"
                /\ output' = [output EXCEPT !.file = @ + 1,
                                            !.seen = @ \cup {output.file}]
           ELSE /\ main_pc' = "imp_execute"
                /\ output' = [output EXCEPT !.data = data, !.row = 1,
                                            !.seen = @ \cup {output.file}]
    /\ UNCHANGED <<db_conn, txn, pending, store, aside>>

\* insert_mpp_data(conn, data, board, channel) is called by someone who
\* holds an open connection and a frame.
ImpCall ==
    /\ main_pc = "imp_start"
    /\ input.entry = "insert_mpp_data"
    /\ db_conn' = "open"
    /\ main_pc' = "imp_execute"
    /\ output' = [output EXCEPT !.data = input.data, !.row = 1]
    /\ UNCHANGED <<txn, pending, store, aside>>

\* The row of the INSERT, with the file and the line it came from.
ImpRow ==
    [row |-> insert_mpp_data(output.data[output.row], input.board.num,
                             input.channel.num),
     src |-> <<output.file, output.row>>]

\* cursor.execute(INSERT ...) for the next row of the frame succeeds: the
\* row is part of the open transaction.
ImpExecute ==
    /\ main_pc = "imp_execute"
    /\ output.row <= Len(output.data)
    /\ txn' = "active"
    /\ pending' = pending \cup {ImpRow}
    /\ output' = [output EXCEPT !.row = @ + 1,
                                !.executed = @ \cup {ImpRow.src}]
    /\ UNCHANGED <<main_pc, db_conn, store, aside>>

\* cursor.execute raises (the database rejects the row): the transaction
\* is aborted and control is in the except clause.
ImpExecuteFails ==
    /\ main_pc = "imp_execute"
    /\ output.row <= Len(output.data)
    /\ txn' = "aborted"
    /\ main_pc' = "imp_rollback"
    /\ output' = [output EXCEPT !.errors = @ \cup {ImpRow.src}]
    /\ UNCHANGED <<db_conn, pending, store, aside>>

\* The statement after insert_mpp_data returns: the next file in main, the
\* end for a direct call.
ImpReturn ==
    IF input.entry = "main" THEN "imp_file" ELSE "imp_done"

\* conn.commit() after the loop: all rows of the frame at once.
ImpCommit ==
    /\ main_pc = "imp_execute"
    /\ output.row > Len(output.data)
    /\ store' = store \cup pending
    /\ pending' = {}
    /\ txn' = "idle"
    /\ main_pc' = ImpReturn
    /\ output' = [output EXCEPT !.file = IF input.entry = "main"
                                         THEN @ + 1 ELSE @]
    /\ UNCHANGED <<db_conn, aside>>

\* except Exception: conn.rollback(): every row executed so far is gone.
ImpRollback ==
    /\ main_pc = "imp_rollback"
    /\ pending' = {}
    /\ txn' = "idle"
    /\ main_pc' = ImpReturn
    /\ output' = [output EXCEPT !.file = IF input.entry = "main"
                                         THEN @ + 1 ELSE @]
    /\ UNCHANGED <<db_conn, store, aside>>

\* conn.close() at the end of main.
ImpClose ==
    /\ \/ main_pc = "imp_close"
       \/ main_pc = "imp_file" /\ output.file > Len(input.files)
    /\ db_conn' = "closed"
    /\ main_pc' = "imp_done"
    /\ UNCHANGED <<txn, pending, store, output, aside>>

ImportNext ==
    \/ ImpConnect
    \/ ImpConnectFails
    \/ ImpOtherKind
    \/ ImpBadArguments
    \/ ImpFiles
    \/ ImpParse
    \/ ImpCall
    \/ ImpExecute
    \/ ImpExecuteFails
    \/ ImpCommit
    \/ ImpRollback
    \/ ImpClose

ImportSpec == ImportInit /\ [][ImportNext]_vars

(***************************************************************************)
(* Vocabulary of the properties.                                           *)
(***************************************************************************)
Msgs(c) == 1..Len(received[c])

\* The message decodes: valid JSON with type and data present.
Decoded(chunk) ==
    /\ chunk.syntax = "json"
    /\ "type" \in DOMAIN chunk.env
    /\ "data" \in DOMAIN chunk.env

\* The number of acknowledgment frames sent for message i of client c.
AckCount(c, i) == Cardinality({j \in 1..Len(acks[c]) : acks[c][j].idx = i})

\* A row built from message i of client c is committed.
Persisted(c, i) == \E r \in store : r.src = <<c, i>>

\* Where client thread c stands (for an abandoned thread: where it stood).
At(c) == IF sess[c].pc = "killed" THEN sess[c].why ELSE sess[c].pc

\* Client thread c is done with message i: it went back to the loop
\* condition after it.  A thread whose sendall raised, and a thread the
\* interpreter abandoned in the middle of the message, never got there.
Past(c, i) ==
    \/ i < Len(received[c])
    \/ /\ i = Len(received[c])
       /\ \/ At(c) \in {"loop", "recv"}
          \/ sess[c].pc = "closed" /\ sess[c].why \in {"stop", "eof", "recv_error"}

\* C1: for every message that decodes (valid JSON with type and data), the
\* client thread sends the acknowledgment at most once, and exactly once by
\* the time it is done with the message, whatever became of the message
\* (dropped, conversion raised, execute or commit raised, stored).
C1_ExactlyOneAck ==
    \A c \in Conns : \A i \in Msgs(c) :
        Decoded(received[c][i]) =>
            /\ AckCount(c, i) <= 1
            /\ Past(c, i) => AckCount(c, i) = 1

\* A decoded message whose write raised has been acknowledged once.
C1_Witness ==
    \E c \in Conns : \E i \in Msgs(c) :
        /\ Decoded(received[c][i])
        /\ <<c, i>> \in failed
        /\ Past(c, i)
        /\ AckCount(c, i) = 1

\* C2: the acknowledgment reflects the outcome: a positive acknowledgment
\* (ok; the code's only frame, ACK, is read as the positive one) is sent
\* only for a persisted measurement, and a dropped measurement is
\* acknowledged with rejected or error.
C2_AckReflectsOutcome ==
    \A c \in Conns : \A j \in 1..Len(acks[c]) :
        LET a == acks[c][j]
        IN  IF Persisted(c, a.idx)
            THEN a.frame \in {"ok", "ACK"}
            ELSE a.frame \in {"rejected", "error"}

\* C3: a malformed message (not JSON, or not even text) never ends the
\* client thread that received it.
C3_MalformedKeepsConnection ==
    \A c \in Conns : \A i \in Msgs(c) :
        received[c][i].syntax # "json" =>
            ~(sess[c].pc = "closed" /\ sess[c].why = "decode_error")

\* C4: a message that does not decode writes no row, and what is sent back
\* for it is an error status, never the success acknowledgment.
C4_UndecodedGetsError ==
    \A c \in Conns : \A i \in Msgs(c) :
        ~Decoded(received[c][i]) =>
            /\ ~\E r \in store \cup pending : r.src = <<c, i>>
            /\ \A j \in 1..Len(acks[c]) :
                  acks[c][j].idx = i => acks[c][j].frame = "error"

\* The canonical fields of the kind are all present in the payload.
CanonicalFieldsPresent(env) ==
    LET have == DOMAIN env.data
    IN  CASE env.type = "mpp" -> {"timestamp", "current", "voltage"} \subseteq have
          [] env.type = "temperature" -> {"timestamp", "temperature"} \subseteq have
          [] env.type = "irradiance" ->
                /\ "timestamp" \in have
                /\ have \cap {"raw_reading", "irradiance"} # {}
          [] OTHER -> FALSE

\* The payload's timestamp denotes a point in time.
TimestampValid(env) ==
    /\ "timestamp" \in DOMAIN env.data
    /\ "fmt" \in DOMAIN env.data.timestamp
    /\ env.data.timestamp.fmt \in {"iso", "slash"}

\* C5: every committed row comes from a message that carried all canonical
\* fields of its kind and a valid timestamp; a missing field is never
\* replaced by a default.
C5_OnlyCompleteMeasurementsPersisted ==
    \A r \in store :
        LET env == received[r.src[1]][r.src[2]].env
        IN  CanonicalFieldsPresent(env) /\ TimestampValid(env)

\* C6: within one client thread the messages are handled strictly one after
\* the other: the acknowledgments are those of messages 1, 2, ... in that
\* order, while message n is being converted or written all earlier
\* messages are acknowledged and n is not, nothing new is read before the
\* last message read is acknowledged, and an uncommitted row of the thread
\* belongs to the message it is working on.
C6_InArrivalOrder ==
    \A c \in Conns :
        LET n == Len(received[c])
            k == Len(acks[c])
        IN  /\ \A j \in 1..k : acks[c][j].idx = j
            /\ k <= n /\ n <= k + 1
            /\ At(c) \in {"process", "execute", "commit", "rollback", "ack"}
                  => k = n - 1
            /\ At(c) \in {"none", "loop", "recv"} => k = n
            /\ \A r \in pending : r.src[1] = c => r.src[2] = n /\ k = n - 1

\* One client has had two messages written and acknowledged, in order.
C6_Witness ==
    \E c \in Conns :
        /\ Len(received[c]) = 2
        /\ Len(acks[c]) = 2
        /\ Persisted(c, 1)
        /\ Persisted(c, 2)

\* No message differs from the valid MPP message of its client.
OnlyValidMpp == \A c \in Conns : \A i \in Msgs(c) : received[c][i] = MppOk(c)

\* C7: every row, committed or not, carries the board and channel (or the
\* sensor id) of the very message it was built from, whatever the other
\* client threads do; and when the clients send valid MPP messages only and
\* no database call raises, every acknowledged message is persisted.
C7_OwnMetadata ==
    /\ \A r \in store \cup pending :
          LET c == r.src[1]
              i == r.src[2]
          IN  /\ c \in Conns /\ i \in Msgs(c)
              /\ LET metadata == received[c][i].env.metadata
                 IN  IF r.table = "mpp_measurement"
                     THEN /\ r.board = metadata.board.num
                          /\ r.channel = metadata.channel.num
                     ELSE r.sensor_id = metadata.sensor_id
    /\ (OnlyValidMpp /\ failed = {}) =>
          \A c \in Conns : \A i \in Msgs(c) :
              AckCount(c, i) = 1 => Persisted(c, i)

\* Two clients have each sent one valid MPP message with board/channel
\* pairs of their own, and both rows are committed.
C7_Witness ==
    /\ OnlyValidMpp
    /\ failed = {}
    /\ \E r1 \in store : \E r2 \in store :
          /\ r1.src[1] # r2.src[1]
          /\ <<r1.board, r1.channel>> # <<r2.board, r2.channel>>
          /\ AckCount(r1.src[1], r1.src[2]) = 1
          /\ AckCount(r2.src[1], r2.src[2]) = 1

\* C8: at most one client thread at a time is between its INSERT and the
\* commit that ends the transaction.
C8_OneSessionInTransaction ==
    Cardinality({c \in Conns : sess[c].pc = "commit"}) <= 1

\* C9: when the write of a measurement raised (the insert or the commit),
\* no row of that measurement is visible in the store.
C9_FailedWriteInvisible ==
    \A t \in failed : ~Persisted(t[1], t[2])

\* Client thread c handles an error of its current message in this step:
\* the except clause of _store_* runs.
HandlesError(c) == sess[c].pc = "rollback" /\ sess'[c].pc = "ack"

\* C10: a per-message error stays with that message: it does not close the
\* connection it arrived on, and handling it changes nothing for another
\* client thread (the rows other threads have inserted and not yet
\* committed are still there afterwards, and the other threads stand where
\* they stood) nor for the main thread and its listener.
C10_ErrorsAreLocal ==
    /\ [](\A c \in Conns : sess[c].pc = "closed" => sess[c].why # "decode_error")
    /\ [][\A c \in Conns :
            HandlesError(c) =>
                /\ \A r \in pending : r.src[1] # c => r \in pending'
                /\ \A d \in Conns \ {c} : sess'[d] = sess[d]
                /\ main_pc' = main_pc /\ server_socket' = server_socket]_vars

\* The second half of C10 on its own: handling an error never discards a
\* row another client thread has inserted and not yet committed.
ErrorKeepsOthersRows ==
    [][\A c \in Conns :
         HandlesError(c) =>
             \A r \in pending : r.src[1] # c => r \in pending']_vars

\* C11: a message that was in the works when stop() was called is finished:
\* its INSERT and commit come before stop() closes the connection, the
\* thread is not abandoned before the acknowledgment is sent, and when the
\* thread has closed its socket the message has its acknowledgment (unless
\* the sendall itself raised or the bytes were not text, which is C3's
\* matter).
C11_InFlightMessageFinished ==
    \A t \in draining :
        LET c == t[1]
            i == t[2]
        IN  /\ At(c) \in {"execute", "commit"} => main_pc \notin {"exit", "done"}
            /\ sess[c].pc = "killed" => sess[c].why = "loop"
            /\ (sess[c].pc = "closed"
                  /\ sess[c].why \notin {"send_error", "decode_error"})
                    => AckCount(c, i) = 1

\* C12: when bind() raised, the service never starts (is_running stays
\* false and no client is ever accepted), and once start() is over its
\* caller has the exception: start() raised it instead of returning.
C12_BindFailurePropagated ==
    start_error.stage = "bind" =>
        /\ ~is_running
        /\ \A c \in Conns : sess[c].pc = "none"
        /\ main_pc # "start_except" => start_error.propagated

\* C13: no client is accepted and the service never runs unless the
\* database connection was established first; when psycopg2.connect raised,
\* nothing is ever accepted, the error is logged for the operator, and by
\* the time start() is over the listening socket is closed.
C13_NoServiceWithoutStorage ==
    /\ \A c \in Conns : sess[c].pc # "none" => db_conn # "none"
    /\ start_error.stage = "connect" =>
          /\ ~is_running
          /\ \A c \in Conns : sess[c].pc = "none"
          /\ start_error.logged
          /\ main_pc # "start_except" => server_socket = "closed"

\* The database was unreachable, and the process has ended without having
\* served anyone.
C13_Witness ==
    /\ start_error.stage = "connect"
    /\ start_error.logged
    /\ main_pc = "done"
    /\ server_socket = "closed"
    /\ db_conn = "none"

\* The messages _process_message got to dispatch: the chunks that parsed.
IsJson(chunk) == chunk.syntax = "json"
Dispatched(c) == SelectSeq(received[c], IsJson)

\* C14: however the bytes are cut into reads, once everything the client
\* wrote has been read and handled, the messages dispatched are the
\* messages sent, in order, and each has its own acknowledgment.
C14_FramingIndependent ==
    (wire = <<>> /\ At(Peer) \in {"loop", "recv"}) =>
        /\ Dispatched(Peer) = sent
        /\ Len(acks[Peer]) = Len(sent)

\* validate_data_format returns True for the payload of the message.
Validates(chunk) ==
    LET v == validate_data_format(chunk.env.data, chunk.env.type)
    IN  v.ok /\ v.val

\* C15: the stages run in order and each failure ends the dispatch: a
\* client thread gets to cursor.execute for a message, and a row of a
\* message exists, only if the message parsed, has type and data, and
\* passes validate_data_format.
C15_WriteOnlyAfterValidation ==
    /\ \A c \in Conns :
          At(c) \in {"execute", "commit"} =>
              Decoded(Cur(c)) /\ Validates(Cur(c))
    /\ \A r \in store \cup pending :
          LET chunk == received[r.src[1]][r.src[2]]
          IN  Decoded(chunk) /\ Validates(chunk)

\* The outcomes noted for the current message of client thread c.
Outcomes(c) == {writes[c][k] : k \in 1..Len(writes[c])}

\* C16: when the thread gives a message up (it is in the except clause or
\* about to acknowledge) after a database call that failed on the
\* connection, another call was made after that failure (the write was
\* tried again); a row the server rejected is tried once only and the
\* message is dropped.
C16_TransientRetried ==
    \A c \in Conns :
        At(c) \in {"rollback", "ack"} =>
            /\ "transient" \in Outcomes(c) =>
                  \E k \in 1..(Len(writes[c]) - 1) : writes[c][k] = "transient"
            /\ "rejected" \in Outcomes(c) => writes[c] = <<"rejected">>

\* Client thread c leaves _handle_client in this step.
Ends(c) == sess[c].pc \notin {"none", "closed", "killed"} /\ sess'[c].pc = "closed"

\* C17: a client thread leaves _handle_client only when recv returned b''
\* (the peer closed), when it saw is_running false, or when recv or sendall
\* raised; and the step in which it leaves (which closes its socket)
\* changes nothing for the main thread: the accept loop, the flag and the
\* listening socket are as before.
C17_SessionEndsForThreeReasons ==
    /\ [](\A c \in Conns :
            sess[c].pc = "closed" =>
                sess[c].why \in {"eof", "stop", "recv_error", "send_error"})
    /\ [][\A c \in Conns :
            Ends(c) =>
                /\ main_pc' = main_pc
                /\ is_running' = is_running
                /\ server_socket' = server_socket]_vars

\* C18: every accepted client is served by a thread of its own, unless
\* starting the thread failed, and then its connection is closed; the step
\* in which the start fails leaves the accept loop running.
C18_SpawnFailureDropsConnection ==
    /\ [](\A c \in Conns :
            sess[c].why = "spawn_error" => sess[c].pc = "dropped")
    /\ [][\A c \in Conns :
            (sess[c].pc = "none" /\ sess'[c].why = "spawn_error") =>
                /\ main_pc' = "accept"
                /\ is_running'
                /\ server_socket' = "listening"]_vars

\* After a failed thread start the accept loop has accepted and served a
\* later client: its message is stored and acknowledged.
C18_LaterClientServed ==
    \E c \in Conns : \E d \in Conns :
        /\ c < d
        /\ sess[c].why = "spawn_error"
        /\ Persisted(d, 1)
        /\ AckCount(d, 1) = 1

\* The value of the first column of the payload under one of the names.
Column(df, names) == df[FirstColumn(df, names)]

\* The input is an MPP measurement the validator accepts, and none of its
\* columns is a power column.
ValidMppWithoutPower ==
    /\ input.type = "mpp"
    /\ validate_mpp_data_format(input.data)
    /\ ~HasColumn(input.data, PowerNames)

\* C19: for a valid MPP measurement without a power column, the row each
\* path hands to the INSERT has power = current * voltage of that very
\* measurement, on the live path and on the import path.
C19_PowerDerived ==
    ValidMppWithoutPower =>
        LET expected == Column(input.data, CurrentNames).num
                            * Column(input.data, VoltageNames).num
        IN  /\ output.live.run =>
                  /\ output.live.result.kind = "insert"
                  /\ output.live.result.row.power = expected
            /\ output.imported.run =>
                  /\ output.imported.result.kind = "insert"
                  /\ output.imported.result.row.power.num = expected

\* The import path alone derives the power, also under the aliases.
C19_ImportDerivesPower ==
    /\ ValidMppWithoutPower
    /\ "I" \in DOMAIN input.data
    /\ output.imported.run
    /\ output.imported.result.kind = "insert"
    /\ output.imported.result.row.power = Num(40)

\* The input is an irradiance measurement with a raw reading (under its
\* standard name or an alias) and no irradiance column.
RawReadingNames == RawNames \cup {"raw_reading"}
IrradianceWithRawOnly ==
    /\ input.type = "irradiance"
    /\ HasColumn(input.data, TimestampNames)
    /\ TimestampConverts(input.data)
    /\ HasColumn(input.data, RawReadingNames)
    /\ ~HasColumn(input.data, IrradianceNames)

\* C20: for an irradiance measurement with a raw reading and no irradiance
\* column, the irradiance handed to the INSERT on the live path, and the
\* irradiance the transformer returns, is the raw reading times the
\* conversion factor, never a default.
C20_IrradianceDerived ==
    IrradianceWithRawOnly =>
        LET raw == Column(input.data, RawReadingNames)
            expected == TimesFactor(raw).val.num
        IN  /\ output.live.run =>
                  /\ output.live.result.kind = "insert"
                  /\ output.live.result.row.irradiance = expected
            /\ (output.normalized.run /\ validate_irradiance_data_format(input.data))
                    => /\ output.normalized.result.ok
                       /\ output.normalized.result.val["irradiance"].num = expected

\* The transformer derives the irradiance from an aliased raw reading.
C20_TransformerDerives ==
    /\ IrradianceWithRawOnly
    /\ output.normalized.run
    /\ output.normalized.result.ok
    /\ output.normalized.result.val["irradiance"] = Num(90)

\* The irradiance measurement of the scenario: timestamp 2023/09/20 12:00:00
\* (the fourth fallback format), reading 900 under the alias raw, no
\* irradiance.
SlashRawMessage ==
    /\ input.type = "irradiance"
    /\ input.data = ("timestamp" :> Ts("slash", 1)) @@ ("raw" :> Num(900))

\* C21: that message, received by a client thread, gets to the INSERT with
\* the instant its timestamp denotes, raw reading 900 and irradiance 90.
C21_LiveAcceptsFallbackAndAlias ==
    (SlashRawMessage /\ output.live.run) =>
        /\ output.live.result.kind = "insert"
        /\ output.live.result.row.timestamp = 1
        /\ output.live.result.row.raw_reading = 900
        /\ output.live.result.row.irradiance = 90

\* The kinds of measurement the validator knows.
Kinds == {"mpp", "temperature", "irradiance"}

\* The required concepts of each kind, each as the set of its aliases.
RequiredConcepts(kind) ==
    CASE kind = "mpp" -> {TimestampNames, CurrentNames, VoltageNames}
      [] kind = "temperature" -> {TimestampNames, TemperatureNames}
      [] kind = "irradiance" -> {TimestampNames, RawNames \cup IrradianceNames}

\* Some column of the payload is, whatever its case, one of the names.
Present(df, names) == {Lower(col) : col \in DOMAIN df} \cap names # {}

TimestampOf(df) == df[FirstColumn(df, TimestampNames)]

\* The value a timestamp has when it is a time already, or ISO-8601 text,
\* or else text in the first of YYYY-MM-DD, DD/MM/YYYY, MM/DD/YYYY,
\* YYYY/MM/DD that fits; Raised when it is none of these.
InOrder(x) ==
    IF "dt" \in DOMAIN x THEN Value(x)
    ELSE IF "fmt" \in DOMAIN x /\ x.fmt = "iso" THEN Value(Datetime(x.t))
    ELSE IF \E k \in 1..4 : PdToDatetimeFormat(x, FallbackFormats[k]).ok
         THEN PdToDatetimeFormat(x, FallbackFormats[
                  CHOOSE k \in 1..4 :
                      /\ PdToDatetimeFormat(x, FallbackFormats[k]).ok
                      /\ \A j \in 1..(k - 1) :
                            ~PdToDatetimeFormat(x, FallbackFormats[j]).ok])
    ELSE Raised

\* Every required concept of the payload's kind is present.
Complete(env) ==
    /\ env.type \in Kinds
    /\ \A names \in RequiredConcepts(env.type) : Present(env.data, names)

\* C23: the validator accepts a complete payload exactly when its timestamp
\* is a time already, ISO-8601, or fits one of the four fallback formats;
\* the normalizer gives a timestamp only when the validator accepts it, and
\* gives it the value of the first format, in the stated order, that fits.
C23_TimestampFormatsInOrder ==
    /\ (output.valid.run /\ Complete(input)) =>
          output.valid.result = Value(InOrder(TimestampOf(input.data)).ok)
    /\ (output.transformed.run /\ output.transformed.result.ok) =>
          /\ InOrder(TimestampOf(input.data)).ok
          /\ output.transformed.result.val["timestamp"] =
                InOrder(TimestampOf(input.data)).val

\* The same for the one case of a date that reads both ways round, such as
\* 05/09/2023 12:00:00: the normalizer gives it the day-first value.
C23_DayFirstBeforeMonthFirst ==
    (/\ output.transformed.run
     /\ output.transformed.result.ok
     /\ "fmt" \in DOMAIN TimestampOf(input.data)
     /\ TimestampOf(input.data).fmt = "ambiguous") =>
        output.transformed.result.val["timestamp"] =
            Datetime(TimestampOf(input.data).t)

\* C24: validate_data_format never raises: whatever the payload and the
\* declared kind, it returns True or False.
C24_ValidateNeverRaises ==
    output.valid.run =>
        /\ output.valid.result.ok
        /\ output.valid.result.val \in BOOLEAN

\* The canonical fields of each kind.
CanonicalFields(kind) ==
    CASE kind = "mpp" -> {"timestamp", "current", "voltage", "power"}
      [] kind = "temperature" -> {"timestamp", "temperature"}
      [] kind = "irradiance" -> {"timestamp", "raw_reading", "irradiance"}

\* C25: transform_measurement_data leaves its input as it was, whether it
\* returns or raises, and what it returns has exactly the canonical fields
\* of the kind and a parsed timestamp.
C25_TransformPureAndComplete ==
    [][Transform =>
          /\ input' = input
          /\ output'.transformed.result.ok =>
                /\ DOMAIN output'.transformed.result.val =
                      CanonicalFields(input.type)
                /\ "dt" \in DOMAIN output'.transformed.result.val["timestamp"]
      ]_vars

\* C26: for a payload the validator accepts, transforming the transformed
\* row again returns that row: the parsed timestamp is left as it is and
\* the derived field that is now present is not computed again.
C26_TransformIdempotent ==
    output.again.run => output.again.result = output.normalized.result

\* A payload with aliases, a textual timestamp and no power was validated
\* and transformed, and the result transformed again.
C26_Witness ==
    /\ output.again.run
    /\ input.type = "mpp"
    /\ {"Time", "I", "V"} = DOMAIN input.data
    /\ input.data["Time"] = Ts("dmy", 1)
    /\ output.again.result.ok
    /\ output.again.result.val["power"] = Num(40)

\* The transformer keeps a supplied power or irradiance, under any alias.
C27_TransformerKeepsSupplied ==
    (output.transformed.run /\ output.transformed.result.ok) =>
        /\ (input.type = "mpp" /\ Present(input.data, PowerNames)) =>
              output.transformed.result.val["power"] =
                  Column(input.data, PowerNames)
        /\ (input.type = "irradiance"
              /\ Present(input.data, IrradianceNames)) =>
              output.transformed.result.val["irradiance"] =
                  Column(input.data, IrradianceNames)

\* C27: a derived field is computed only when it is absent: where the
\* payload supplies power, or irradiance, under any alias, the row that
\* comes out of the transformer, and the row the live path inserts, carries
\* the supplied value.
C27_DerivedOnlyWhenAbsent ==
    /\ C27_TransformerKeepsSupplied
    /\ (output.live.run /\ output.live.result.kind = "insert") =>
          /\ (input.type = "mpp" /\ Present(input.data, PowerNames)) =>
                output.live.result.row.power =
                    Column(input.data, PowerNames).num
          /\ (input.type = "irradiance"
                /\ Present(input.data, IrradianceNames)) =>
                output.live.result.row.irradiance =
                    Column(input.data, IrradianceNames).num

\* The file holds what the requested kind needs: its frame is accepted by
\* the validator and the transformer returns rows for it.
ValidFile(file, kind) ==
    /\ validate_data_format(file.frame, kind) = Value(TRUE)
    /\ transform_measurement_data(file.frame, kind).ok

\* The rows in the store that came from the k-th file.
RowsOf(k) == {r \in store : r.src[1] = k}

\* The half of C28 about the bad file itself: a file that is not valid for
\* the requested kind never has a row in the store, and an MPP import that
\* ends has been through every file of the directory.
C28_BadFileContributesNothing ==
    input.entry = "main" =>
        /\ \A k \in 1..Len(input.files) :
              ~ValidFile(input.files[k], input.data_type) => RowsOf(k) = {}
        /\ (main_pc = "imp_done" /\ input.data_type = "mpp") =>
              output.seen = 1..Len(input.files)

\* C28: when an import of a directory ends, every file of it has been
\* processed; the files that fail validation or parsing for the requested
\* kind have contributed no rows, and the valid files, wherever they stand
\* among the bad ones, have been inserted.
C28_BadFileSkippedOthersInserted ==
    (input.entry = "main" /\ input.exists /\ main_pc = "imp_done") =>
        \A k \in 1..Len(input.files) :
            /\ k \in output.seen
            /\ ~ValidFile(input.files[k], input.data_type) => RowsOf(k) = {}
            /\ (/\ ValidFile(input.files[k], input.data_type)
                /\ \A e \in output.errors : e[1] # k) => RowsOf(k) # {}

\* The same for the one run of an MPP import over a bad file followed by a
\* good one.
C28_GoodAfterBadInserted ==
    (/\ input.entry = "main"
     /\ input.data_type = "mpp"
     /\ input.files = <<BadMppFile, GoodMppFile>>
     /\ main_pc = "imp_done"
     /\ output.errors = {}) => RowsOf(2) # {}

\* C29: each row write of the importer stands on its own: when
\* insert_mpp_data has returned, every row of the frame whose INSERT
\* succeeded is in the store, whether or not the INSERT of another row of
\* the frame failed.
C29_RowWritesIndependent ==
    (input.entry = "insert_mpp_data" /\ main_pc = "imp_done") =>
        \A src \in output.executed : \E r \in store : r.src = src

\* C30: whatever the interleaving of the client threads, a message whose
\* own INSERT and commit both returned without raising has its row in the
\* store: no rollback or failure of another thread on the shared
\* connection takes it away.
C30_NoRowLostToConcurrentRollback ==
    \A c \in Conns :
        writes[c] = <<"inserted", "committed">> =>
            Persisted(c, Len(received[c]))

StopCalled == main_pc \in {"stop", "stop_socket", "stop_db", "exit", "done"}

\* C32: once stop() has been called the accept loop is over: the main
\* thread never returns to it, and no client that was not connected before
\* is accepted or given a thread.
C32_NoAcceptAfterStop ==
    [][StopCalled =>
          /\ main_pc' # "accept"
          /\ \A c \in Conns : sess[c].pc = "none" => sess'[c].pc = "none"]_vars

\* The service was running with one client connected, stop() has closed
\* the listening socket, and the other client has not been accepted.
C32_Witness ==
    /\ StopCalled
    /\ server_socket = "closed"
    /\ start_error = NoError
    /\ \E c \in Conns : sess[c].pc = "none"
    /\ \E c \in Conns : sess[c].pc \notin {"none", "unserved", "dropped"}

\* C33: after stop() every open Session closes its socket: when the main
\* thread has returned from stop() and main() has ended, no client thread
\* is left that never reached the close of its socket.
C33_SessionsCloseAfterStop ==
    main_pc = "done" => \A c \in Conns : sess[c].pc # "killed"

\* The same for the Session of an idle client alone: a thread that was
\* waiting in recv when stop() was called has closed its socket when main()
\* has ended.
C33_IdleSessionCloses ==
    main_pc = "done" =>
        \A c \in Conns : ~(sess[c].pc = "killed" /\ sess[c].why = "recv")

\* C34: a failed write leaves the connection usable: while the service is
\* running, whenever a client thread issues the INSERT of a valid message
\* the connection is open and not inside a transaction that has failed, so
\* the message is not refused for what an earlier write left behind.
C34_FailedWriteLeavesHandleUsable ==
    [][\A c \in Conns :
         (/\ main_pc = "accept"
          /\ sess[c].pc = "execute"
          /\ sess'[c].pc # "execute") =>
             (db_conn = "open" /\ txn # "aborted")]_vars

\* The lasting half on its own: while the service is running the
\* connection made by _connect_to_database is open.
C34_HandleStaysOpen ==
    (main_pc = "accept" /\ is_running) => db_conn = "open"

\* C35: whatever validate_data_format accepts, transform_measurement_data
\* turns into a row: for every payload the validator returns True for, the
\* transformer returns without raising and the row has every canonical
\* field of the kind.
C35_ValidatedIsTransformable ==
    (/\ output.valid.run
     /\ output.valid.result = Value(TRUE)
     /\ output.transformed.run) =>
        /\ output.transformed.result.ok
        /\ CanonicalFields(input.type) \subseteq
              DOMAIN output.transformed.result.val

\* The same for the payloads with two aliases of one concept.
C35_TwoAliasesTransformable ==
    (/\ {"Timestamp", "Time"} \subseteq DOMAIN input.data
     /\ output.valid.run
     /\ output.valid.result = Value(TRUE)
     /\ output.transformed.run) => output.transformed.result.ok

====
